---- MODULE Spec2Model ----
(***************************************************************************)
(* Model of validateMaintainersFile (src/main.go): the consistency check   *)
(* of a maintainers registry against a chart index.                        *)
(*                                                                         *)
(* Strings that the code inspects (chart names, tested with               *)
(* strings.HasSuffix) are sequences of one-character strings; strings     *)
(* that are only compared for equality (labels) are TLA+ strings.         *)
(* Everything the program prints is a record appended to `out`.           *)
(*                                                                         *)
(* A maintainer list is a list of records: a null element of the YAML     *)
(* sequence (a nil *Maintainer) is not among the inputs.  Line numbers    *)
(* are those of the first of the two copies of the program in the file;   *)
(* the second copy has the same statements.                               *)
(***************************************************************************)
EXTENDS Integers, Sequences, FiniteSets, TLC

VARIABLES
    maintainersFile,    \* ./maintainers.yaml: whether it decodes, and to which list
    indexFile,          \* ./charts/index.yaml: whether it decodes, and to which entry keys
    pc,                 \* position in validateMaintainersFile
    maintainers,        \* the decoded Maintainers (nil = the empty list)
    mi,                 \* range position in maintainers (1-based)
    ci,                 \* range position in maintainers[mi].Charts (1-based)
    maintainersCharts,  \* map[string]struct{} as a set of names
    duplicateCharts,    \* map[string]struct{} as a set of names
    index,              \* the *IndexFile: nil, or the keys of its Entries
    todo,               \* keys the running range-over-map loop has still to yield
    out                 \* the lines printed so far, in order

vars == <<maintainersFile, indexFile, pc, maintainers, mi, ci,
          maintainersCharts, duplicateCharts, index, todo, out>>

----------------------------------------------------------------------------
(* Bounds of the input documents. *)

MaxMaintainers == 2     \* maintainer records in a list
MaxDecls == 2           \* chart declarations in a list, all rules together
OMaxDecls == 4          \* the same, ownership and membership only
CMaxDecls == 2          \* the same, the -crd rule only
LMaxDecls == 2          \* the same, the label rule only
MaxLabels == 4          \* labels in a list, over all its declarations

----------------------------------------------------------------------------
(* Values. *)

CrdSuffix == <<"-", "c", "r", "d">>

NameA == <<"a">>
NameB == <<"b">>
NameACrd == <<"a", "-", "c", "r", "d">>
NameCrd == <<"c", "r", "d">>
NameDashCrd == <<"-", "c", "r", "d">>
NameCrdA == <<"-", "c", "r", "d", "a">>

NoChart == <<>>
NoLabel == ""

Line(kind, chart, label) == [kind |-> kind, chart |-> chart, label |-> label]

\* fmt.Println(err) of a failed decode
ErrorLine == Line("DecodeError", NoChart, NoLabel)

\* when b then the sequence s else nothing
If(b, s) == IF b THEN s ELSE <<>>

----------------------------------------------------------------------------
(* strings.HasSuffix(s, suffix) *)

HasSuffixMissingDash(s, suffix) ==
    /\ Len(s) >= Len(suffix) - 1
    /\ SubSeq(s, Len(s) - Len(suffix) + 2, Len(s)) = Tail(suffix)

HasSuffix(s, suffix) ==
    /\ Len(s) >= Len(suffix)
    /\ SubSeq(s, Len(s) - Len(suffix) + 1, Len(s)) = suffix

----------------------------------------------------------------------------
(* The body of the loop over one chart declaration. *)

\* lines 54-56
CrdCheckIgnoresFlag(chart) ==
    If(HasSuffix(chart.Name, CrdSuffix),
       <<Line("InvalidCrdIssueFlag", chart.Name, NoLabel)>>)

CrdCheck(chart) ==
    If(HasSuffix(chart.Name, CrdSuffix) /\ chart.GenerateIssue,
       <<Line("InvalidCrdIssueFlag", chart.Name, NoLabel)>>)

\* lines 58-64: the loop over chart.GithubLabels from position i on, with the
\* duplicateLabels map built so far
RECURSIVE LabelLoop(_, _, _)
LabelLoop(chart, i, duplicateLabels) ==
    IF i > Len(chart.GithubLabels) THEN <<>>
    ELSE LET label == chart.GithubLabels[i]
         IN  If(label \in duplicateLabels,
                <<Line("DuplicateLabel", chart.Name, label)>>)
             \o LabelLoop(chart, i + 1, duplicateLabels \cup {label})

RECURSIVE LabelLoopOncePerLabel(_, _, _, _)
LabelLoopOncePerLabel(chart, i, duplicateLabels, flagged) ==
    IF i > Len(chart.GithubLabels) THEN <<>>
    ELSE LET label == chart.GithubLabels[i]
         IN  If(label \in duplicateLabels /\ label \notin flagged,
                <<Line("DuplicateLabel", chart.Name, label)>>)
             \o LabelLoopOncePerLabel(chart, i + 1, duplicateLabels \cup {label},
                    IF label \in duplicateLabels THEN flagged \cup {label} ELSE flagged)

LabelCheckOncePerLabel(chart) == LabelLoopOncePerLabel(chart, 1, {}, {})

LabelCheck(chart) == LabelLoop(chart, 1, {})

\* lines 66-71
IsNewDuplicateEveryTime(chart, seen, flagged) == chart.Name \in seen

IsNewDuplicate(chart, seen, flagged) ==
    chart.Name \in seen /\ chart.Name \notin flagged

DuplicateCheck(chart, seen, flagged) ==
    If(IsNewDuplicate(chart, seen, flagged),
       <<Line("DuplicateChartOwnership", chart.Name, NoLabel)>>)

\* lines 52-73, the lines one declaration prints
ChartLinesDuplicateFirst(chart, seen, flagged) ==
    DuplicateCheck(chart, seen, flagged) \o CrdCheck(chart) \o LabelCheck(chart)

ChartLines(chart, seen, flagged) ==
    CrdCheck(chart) \o LabelCheck(chart) \o DuplicateCheck(chart, seen, flagged)

----------------------------------------------------------------------------
(* Input documents. *)

SeqsUpTo(S, n) == UNION {[1..k -> S] : k \in 0..n}

RECURSIVE Sum(_)
Sum(ns) == IF ns = <<>> THEN 0 ELSE Head(ns) + Sum(Tail(ns))

\* the ways to cut a sequence of length n into at most maxParts parts
Cuts(n, maxParts) == {sizes \in SeqsUpTo(0..n, maxParts) : Sum(sizes) = n}

\* the Chart values of yaml.Unmarshal
Charts(names, flags, labelSeqs) ==
    [Name : names, GenerateIssue : flags, GithubLabels : labelSeqs]

\* sequences of at most maxD charts
Decls(charts, maxD) == SeqsUpTo(charts, maxD)

\* the charts heads[i] with the labels cut into GithubLabels, sizes[i] for the i-th
RECURSIVE Labelled(_, _, _)
Labelled(heads, labels, sizes) ==
    IF heads = <<>> THEN <<>>
    ELSE <<[Head(heads) EXCEPT !.GithubLabels = SubSeq(labels, 1, Head(sizes))]>>
         \o Labelled(Tail(heads), SubSeq(labels, Head(sizes) + 1, Len(labels)),
                     Tail(sizes))

\* the maintainer records that hold the declarations decls, sizes[i] of them
\* in the i-th record
RECURSIVE Records(_, _)
Records(decls, sizes) ==
    IF sizes = <<>> THEN <<>>
    ELSE <<[Charts |-> SubSeq(decls, 1, Head(sizes))]>>
         \o Records(SubSeq(decls, Head(sizes) + 1, Len(decls)), Tail(sizes))

Readable(doc) == [ok |-> TRUE, doc |-> doc]
UnreadableList == [ok |-> FALSE, doc |-> <<>>]
UnreadableIndex == [ok |-> FALSE, doc |-> {}]

NilIndex == [isNil |-> TRUE, Entries |-> {}]
IndexOf(entries) == [isNil |-> FALSE, Entries |-> entries]

----------------------------------------------------------------------------
(* The state at the entry of validateMaintainersFile, for the input        *)
(* documents drawn from the given sets.                                    *)

Start ==
    /\ pc = "start"
    /\ maintainers = <<>>
    /\ mi = 1
    /\ ci = 1
    /\ maintainersCharts = {}
    /\ duplicateCharts = {}
    /\ index = NilIndex
    /\ todo = {}
    /\ out = <<>>

\* maintainers.yaml is unreadable, or holds at most maxM records with one of
\* declSeqs as their declarations
ListFile(declSeqs, maxM) ==
    \/ maintainersFile = UnreadableList
    \/ \E decls \in declSeqs : \E sizes \in Cuts(Len(decls), maxM) :
         maintainersFile = Readable(Records(decls, sizes))

\* the same, the declarations carrying at most maxL labels in all
LabelledListFile(charts, labels, maxD, maxM, maxL) ==
    \/ maintainersFile = UnreadableList
    \/ \E heads \in Decls(charts, maxD) : \E ls \in SeqsUpTo(labels, maxL) :
         \E lsizes \in {f \in [1..Len(heads) -> 0..Len(ls)] : Sum(f) = Len(ls)} :
           \E sizes \in Cuts(Len(heads), maxM) :
             maintainersFile = Readable(Records(Labelled(heads, ls, lsizes), sizes))

\* index.yaml is unreadable, or holds one of keySets as the keys of its entries
IndexFile(keySets) ==
    \/ indexFile = UnreadableIndex
    \/ \E keys \in keySets : indexFile = Readable(keys)

----------------------------------------------------------------------------
(* validateMaintainersFile, step by step. *)

\* lines 44-47 and 98-109
DecodeMaintainers ==
    /\ pc = "start"
    /\ IF maintainersFile.ok
       THEN /\ maintainers' = maintainersFile.doc
            /\ out' = out
       ELSE /\ maintainers' = <<>>
            /\ out' = Append(out, ErrorLine)
    /\ pc' = "charts"
    /\ mi' = 1
    /\ ci' = 1
    /\ UNCHANGED <<maintainersFile, indexFile, maintainersCharts, duplicateCharts,
                   index, todo>>

\* line 51: the outer range moves to the next maintainer
NextMaintainerResetsDuplicates ==
    /\ pc = "charts"
    /\ mi <= Len(maintainers)
    /\ ci > Len(maintainers[mi].Charts)
    /\ mi' = mi + 1
    /\ ci' = 1
    /\ duplicateCharts' = {}
    /\ UNCHANGED <<maintainersFile, indexFile, pc, maintainers, maintainersCharts,
                   index, todo, out>>

NextMaintainer ==
    /\ pc = "charts"
    /\ mi <= Len(maintainers)
    /\ ci > Len(maintainers[mi].Charts)
    /\ mi' = mi + 1
    /\ ci' = 1
    /\ UNCHANGED <<maintainersFile, indexFile, pc, maintainers, maintainersCharts,
                   duplicateCharts, index, todo, out>>

\* lines 52-73: one iteration of the inner range
ProcessChart ==
    /\ pc = "charts"
    /\ mi <= Len(maintainers)
    /\ ci <= Len(maintainers[mi].Charts)
    /\ LET chart == maintainers[mi].Charts[ci]
       IN  /\ out' = out \o ChartLines(chart, maintainersCharts, duplicateCharts)
           /\ duplicateCharts' =
                  IF IsNewDuplicate(chart, maintainersCharts, duplicateCharts)
                  THEN duplicateCharts \cup {chart.Name}
                  ELSE duplicateCharts
           /\ maintainersCharts' = maintainersCharts \cup {chart.Name}
    /\ ci' = ci + 1
    /\ UNCHANGED <<maintainersFile, indexFile, pc, maintainers, mi, index, todo>>

\* lines 75-78 and 111-122
DecodeIndex ==
    /\ pc = "charts"
    /\ mi > Len(maintainers)
    /\ IF indexFile.ok
       THEN /\ index' = IndexOf(indexFile.doc)
            /\ out' = out
       ELSE /\ index' = NilIndex
            /\ out' = Append(out, ErrorLine)
    /\ pc' = "empty"
    /\ UNCHANGED <<maintainersFile, indexFile, maintainers, mi, ci,
                   maintainersCharts, duplicateCharts, todo>>

\* line 79 on a nil *IndexFile: the read of index.Entries panics
NilDereference ==
    /\ pc = "empty"
    /\ index.isNil
    /\ pc' = "panic"
    /\ UNCHANGED <<maintainersFile, indexFile, maintainers, mi, ci,
                   maintainersCharts, duplicateCharts, index, todo, out>>

\* lines 79-81 and the start of the range of line 83
CheckEmptyEitherSide ==
    /\ pc = "empty"
    /\ ~index.isNil
    /\ out' = out \o If(Cardinality(index.Entries) = 0
                            \/ Cardinality(maintainersCharts) = 0,
                        <<Line("EmptyIndex", NoChart, NoLabel)>>)
    /\ pc' = "indexLoop"
    /\ todo' = index.Entries
    /\ UNCHANGED <<maintainersFile, indexFile, maintainers, mi, ci,
                   maintainersCharts, duplicateCharts, index>>

CheckEmpty ==
    /\ pc = "empty"
    /\ ~index.isNil
    /\ out' = out \o If(Cardinality(index.Entries) = 0,
                        <<Line("EmptyIndex", NoChart, NoLabel)>>)
    /\ pc' = "indexLoop"
    /\ todo' = index.Entries
    /\ UNCHANGED <<maintainersFile, indexFile, maintainers, mi, ci,
                   maintainersCharts, duplicateCharts, index>>

\* lines 83-87: one iteration; a map range yields its keys in any order
CheckIndexEntry ==
    /\ pc = "indexLoop"
    /\ \E chartName \in todo :
         /\ out' = out \o If(chartName \notin maintainersCharts,
                             <<Line("MissingFromMaintainers", chartName, NoLabel)>>)
         /\ todo' = todo \ {chartName}
    /\ UNCHANGED <<maintainersFile, indexFile, pc, maintainers, mi, ci,
                   maintainersCharts, duplicateCharts, index>>

\* line 89: the range over maintainersCharts starts
StartMaintainersLoop ==
    /\ pc = "indexLoop"
    /\ todo = {}
    /\ pc' = "maintainersLoop"
    /\ todo' = maintainersCharts
    /\ UNCHANGED <<maintainersFile, indexFile, maintainers, mi, ci,
                   maintainersCharts, duplicateCharts, index, out>>

\* lines 89-94: one iteration, with the delete of line 93
CheckMaintainedChartAfterDelete ==
    /\ pc = "maintainersLoop"
    /\ \E chartName \in todo :
         /\ index' = [index EXCEPT !.Entries = @ \ {chartName}]
         /\ out' = out \o If(chartName \notin index'.Entries,
                             <<Line("MissingFromIndex", chartName, NoLabel)>>)
         /\ todo' = todo \ {chartName}
    /\ UNCHANGED <<maintainersFile, indexFile, pc, maintainers, mi, ci,
                   maintainersCharts, duplicateCharts>>

CheckMaintainedChart ==
    /\ pc = "maintainersLoop"
    /\ \E chartName \in todo :
         /\ out' = out \o If(chartName \notin index.Entries,
                             <<Line("MissingFromIndex", chartName, NoLabel)>>)
         /\ index' = [index EXCEPT !.Entries = @ \ {chartName}]
         /\ todo' = todo \ {chartName}
    /\ UNCHANGED <<maintainersFile, indexFile, pc, maintainers, mi, ci,
                   maintainersCharts, duplicateCharts>>

\* line 95
Return ==
    /\ pc = "maintainersLoop"
    /\ todo = {}
    /\ pc' = "done"
    /\ UNCHANGED <<maintainersFile, indexFile, maintainers, mi, ci,
                   maintainersCharts, duplicateCharts, index, todo, out>>

Next ==
    \/ DecodeMaintainers
    \/ NextMaintainer
    \/ ProcessChart
    \/ DecodeIndex
    \/ NilDereference
    \/ CheckEmpty
    \/ CheckIndexEntry
    \/ StartMaintainersLoop
    \/ CheckMaintainedChart
    \/ Return

----------------------------------------------------------------------------
(* Specifications: the same program on four families of input documents. *)

\* all rules together
Init ==
    /\ ListFile(Decls(Charts({NameA, NameACrd}, BOOLEAN,
                             {<<"x", "y">>, <<"x", "y", "y", "x">>}),
                      MaxDecls),
                MaxMaintainers)
    /\ IndexFile(SUBSET {NameA, NameACrd, NameB})
    /\ Start

Spec == Init /\ [][Next]_vars

\* ownership and membership: many declarations of few names
InitOwnership ==
    /\ ListFile(Decls(Charts({NameA, NameB, NameACrd}, {FALSE}, {<<>>}), OMaxDecls),
                MaxMaintainers)
    /\ IndexFile(SUBSET {NameA, NameB, NameACrd})
    /\ Start

SpecOwnership == InitOwnership /\ [][Next]_vars

\* the -crd rule: names around the suffix
InitCrd ==
    /\ ListFile(Decls(Charts({NameA, NameACrd, NameCrd, NameDashCrd, NameCrdA},
                             BOOLEAN, {<<>>}),
                      CMaxDecls),
                MaxMaintainers)
    /\ IndexFile({{NameA, NameB}})
    /\ Start

SpecCrd == InitCrd /\ [][Next]_vars

\* the label rule: label lists of any shape
InitLabels ==
    /\ LabelledListFile(Charts({NameA, NameB}, {FALSE}, {<<>>}), {"x", "y"},
                        LMaxDecls, MaxMaintainers, MaxLabels)
    /\ IndexFile({{NameA}})
    /\ Start

SpecLabels == InitLabels /\ [][Next]_vars

----------------------------------------------------------------------------
(* What the properties below speak of. *)

AllLabels == {"x", "y"}

\* the findings among the printed lines: all but the decode errors
Findings(o) == SelectSeq(o, LAMBDA l : l.kind # "DecodeError")

Count(o, l) == Cardinality({i \in DOMAIN o : o[i] = l})
CountKind(o, kind) == Cardinality({i \in DOMAIN o : o[i].kind = kind})
Occurrences(seq, x) == Cardinality({i \in DOMAIN seq : seq[i] = x})

RECURSIVE Flatten(_)
Flatten(ms) == IF ms = <<>> THEN <<>> ELSE Head(ms).Charts \o Flatten(Tail(ms))

\* the declarations of the decoded list, in input order
Declarations == Flatten(maintainersFile.doc)
DeclaredNames == {Declarations[i].Name : i \in DOMAIN Declarations}

\* the declarations the accumulation loop has been through
Processed ==
    IF mi > Len(maintainers) THEN Flatten(maintainers)
    ELSE Flatten(SubSeq(maintainers, 1, mi - 1))
         \o SubSeq(maintainers[mi].Charts, 1, ci - 1)

NamesOf(decls) == [i \in DOMAIN decls |-> decls[i].Name]
NamesIn(decls) == {decls[i].Name : i \in DOMAIN decls}

\* the names the printed lines o bear
ChartsIn(o) == {o[i].chart : i \in DOMAIN o}

\* n ends with the four characters -crd
EndsWithCrd(n) == \E k \in 0..Len(n) : n = SubSeq(n, 1, k) \o <<"-", "c", "r", "d">>

AfterEmptyCheck == pc \in {"indexLoop", "maintainersLoop", "done"}

----------------------------------------------------------------------------
(* C1: when the pass has completed, there is one MissingFromMaintainers    *)
(* line for each key of the index as decoded that no maintainer declares,  *)
(* one MissingFromIndex line for each declared name that is no key of the  *)
(* index as decoded (one, however often the name is declared), and no      *)
(* other membership line: the deletes of the second loop change nothing.   *)
C1_MembershipIsSetDifference ==
    pc = "done" =>
        \A n \in indexFile.doc \cup DeclaredNames \cup ChartsIn(out) :
            /\ Count(out, Line("MissingFromMaintainers", n, NoLabel))
                 = IF n \in indexFile.doc \ DeclaredNames THEN 1 ELSE 0
            /\ Count(out, Line("MissingFromIndex", n, NoLabel))
                 = IF n \in DeclaredNames \ indexFile.doc THEN 1 ELSE 0

\* a is declared twice and b once, the index holds b and a-crd
C1_Witness ==
    /\ pc = "done"
    /\ DeclaredNames = {NameA, NameB}
    /\ Occurrences(NamesOf(Declarations), NameA) = 2
    /\ indexFile.doc = {NameB, NameACrd}
    /\ Count(out, Line("MissingFromMaintainers", NameACrd, NoLabel)) = 1
    /\ Count(out, Line("MissingFromIndex", NameA, NoLabel)) = 1
    /\ index.Entries = {NameACrd}

(* C2: at every point of the pass, a name has one DuplicateChartOwnership  *)
(* line if two or more of the declarations gone through bear it, in the    *)
(* same record or not, and none otherwise.                                 *)
C2_OneDuplicateLinePerName ==
    LET names == NamesOf(Processed)
    IN  \A n \in NamesIn(Processed) \cup ChartsIn(out) :
            Count(out, Line("DuplicateChartOwnership", n, NoLabel))
              = IF Occurrences(names, n) >= 2 THEN 1 ELSE 0

\* a is declared three times, over two records, and b once
C2_Witness ==
    /\ pc = "done"
    /\ Len(maintainers) = 2
    /\ Len(maintainers[1].Charts) = 2
    /\ Occurrences(NamesOf(Processed), NameA) = 3
    /\ Occurrences(NamesOf(Processed), NameB) = 1
    /\ NameA \in {maintainers[2].Charts[i].Name : i \in DOMAIN maintainers[2].Charts}
    /\ CountKind(out, "DuplicateChartOwnership") = 1

(* C3: at every point of the pass, the DuplicateLabel lines of a chart     *)
(* name and a label number, summed over the declarations of that name gone *)
(* through, the occurrences of the label in the declaration less one: the  *)
(* first occurrence in a declaration prints nothing, each later one a line,*)
(* and what another declaration holds does not count.                      *)
RECURSIVE RepeatedOccurrences(_, _, _)
RepeatedOccurrences(decls, n, label) ==
    IF decls = <<>> THEN 0
    ELSE LET d == Head(decls)
             k == Occurrences(d.GithubLabels, label)
         IN  (IF d.Name = n /\ k >= 1 THEN k - 1 ELSE 0)
             + RepeatedOccurrences(Tail(decls), n, label)

C3_OneLinePerRepeatedLabel ==
    LET processed == Processed
        lines == SelectSeq(out, LAMBDA l : l.kind = "DuplicateLabel")
    IN  \A n \in NamesIn(processed) \cup ChartsIn(lines) :
            \A label \in AllLabels \cup {lines[i].label : i \in DOMAIN lines} :
                Count(lines, Line("DuplicateLabel", n, label))
                  = RepeatedOccurrences(processed, n, label)

\* the labels [x, y, x, x] of a declaration of a
C3_Witness ==
    /\ pc = "done"
    /\ \E i \in DOMAIN Processed :
         /\ Processed[i].Name = NameA
         /\ Processed[i].GithubLabels = <<"x", "y", "x", "x">>
    /\ Len(Processed) = 2
    /\ Count(out, Line("DuplicateLabel", NameA, "x")) = 2
    /\ Count(out, Line("DuplicateLabel", NameA, "y")) = 0

(* C4: at every point of the pass, the InvalidCrdIssueFlag lines of a name *)
(* number the declarations gone through that bear the name, when the name  *)
(* ends in -crd, with generateIssue true: one line per such declaration,   *)
(* whatever else is declared, and none for any other declaration.          *)
C4_OneLinePerFlaggedCrdChart ==
    LET processed == Processed
    IN  \A n \in NamesIn(processed) \cup ChartsIn(out) :
            Count(out, Line("InvalidCrdIssueFlag", n, NoLabel))
              = Cardinality({i \in DOMAIN processed :
                    /\ processed[i].Name = n
                    /\ EndsWithCrd(n)
                    /\ processed[i].GenerateIssue})

\* a-crd and crd, both with generateIssue true
C4_Witness ==
    /\ pc = "done"
    /\ \E i, j \in DOMAIN Processed :
         /\ Processed[i] = [Name |-> NameACrd, GenerateIssue |-> TRUE,
                            GithubLabels |-> <<>>]
         /\ Processed[j] = [Name |-> NameCrd, GenerateIssue |-> TRUE,
                            GithubLabels |-> <<>>]
    /\ Count(out, Line("InvalidCrdIssueFlag", NameACrd, NoLabel)) = 1
    /\ CountKind(out, "InvalidCrdIssueFlag") = 1

(* C5: when the index decodes, there is one EmptyIndex line once the check *)
(* of line 79 has run on an index of no entries, whatever the maintainers  *)
(* declare, and no EmptyIndex line in any other case.                      *)
C5_OneEmptyIndexLine ==
    indexFile.ok =>
        CountKind(out, "EmptyIndex")
          = IF AfterEmptyCheck /\ indexFile.doc = {} THEN 1 ELSE 0

\* an empty index against two declarations
C5_Witness ==
    /\ pc = "done"
    /\ indexFile.ok
    /\ indexFile.doc = {}
    /\ Len(Processed) = 2
    /\ CountKind(out, "EmptyIndex") = 1

(* C6: a registry is clean when both documents decode, no name is declared *)
(* twice, no declaration repeats a label, no -crd chart has generateIssue  *)
(* true, and the declared names are the keys of the index.                 *)
Clean ==
    /\ maintainersFile.ok
    /\ indexFile.ok
    /\ \A i, j \in DOMAIN Declarations :
         Declarations[i].Name = Declarations[j].Name => i = j
    /\ \A i \in DOMAIN Declarations :
         LET labels == Declarations[i].GithubLabels
         IN  \A j, k \in DOMAIN labels : labels[j] = labels[k] => j = k
    /\ \A i \in DOMAIN Declarations :
         ~(EndsWithCrd(Declarations[i].Name) /\ Declarations[i].GenerateIssue)
    /\ DeclaredNames = indexFile.doc

\* C6 as stated: a clean registry, the empty one included, has no finding.
C6_CleanHasNoFinding ==
    (pc = "done" /\ Clean) => Findings(out) = <<>>

\* C6 as amended: a clean registry with a chart has no finding, and the
\* clean registry with none has the EmptyIndex line and no other.
C6_CleanNonEmptyHasNoFinding ==
    (pc = "done" /\ Clean) =>
        Findings(out) = IF indexFile.doc = {} THEN <<Line("EmptyIndex", NoChart, NoLabel)>>
                        ELSE <<>>

\* a and a-crd, declared once each and both in the index
C6_Witness ==
    /\ pc = "done"
    /\ Clean
    /\ indexFile.doc = {NameA, NameACrd}
    /\ out = <<>>

(* C7: a pass returns with its findings or stops before it has printed     *)
(* one: when the pass has failed, or an input has failed to decode, no     *)
(* finding has been printed.                                               *)
C7_FailureMeansNoFinding ==
    (pc = "panic" \/ CountKind(out, "DecodeError") > 0) => Findings(out) = <<>>

(* C8: a decode failure does not stop the pass: it never fails, and when   *)
(* it has returned after the index failed to decode, it has printed the    *)
(* EmptyIndex line and a MissingFromIndex line for every declared name.    *)
C8_DecodeFailureContinues ==
    /\ pc # "panic"
    /\ (pc = "done" /\ ~maintainersFile.ok) => maintainersCharts = {}
    /\ (pc = "done" /\ ~indexFile.ok) =>
         /\ CountKind(out, "EmptyIndex") = 1
         /\ \A n \in DeclaredNames :
              Count(out, Line("MissingFromIndex", n, NoLabel)) = 1

(* C9: at every point of the pass, the lines of the three per-chart rules  *)
(* are those of the declarations gone through, in input order, each        *)
(* declaration with its InvalidCrdIssueFlag line first, then its           *)
(* DuplicateLabel lines in label order, then its DuplicateChartOwnership   *)
(* line; and all of them precede the EmptyIndex line, which precedes the   *)
(* MissingFromMaintainers lines, which precede the MissingFromIndex lines. *)
Phase(kind) ==
    CASE kind \in {"InvalidCrdIssueFlag", "DuplicateLabel", "DuplicateChartOwnership"} -> 1
      [] kind = "EmptyIndex" -> 2
      [] kind = "MissingFromMaintainers" -> 3
      [] kind = "MissingFromIndex" -> 4

RECURSIVE RepeatedLabelLines(_, _, _)
RepeatedLabelLines(n, labels, i) ==
    IF i > Len(labels) THEN <<>>
    ELSE If(\E j \in 1..(i - 1) : labels[j] = labels[i],
            <<Line("DuplicateLabel", n, labels[i])>>)
         \o RepeatedLabelLines(n, labels, i + 1)

RECURSIVE LinesInInputOrder(_, _)
LinesInInputOrder(decls, i) ==
    IF i > Len(decls) THEN <<>>
    ELSE LET d == decls[i]
         IN  If(EndsWithCrd(d.Name) /\ d.GenerateIssue,
                <<Line("InvalidCrdIssueFlag", d.Name, NoLabel)>>)
             \o RepeatedLabelLines(d.Name, d.GithubLabels, 1)
             \o If(Occurrences(NamesOf(SubSeq(decls, 1, i - 1)), d.Name) = 1,
                   <<Line("DuplicateChartOwnership", d.Name, NoLabel)>>)
             \o LinesInInputOrder(decls, i + 1)

C9_DiscoveryOrder ==
    LET found == Findings(out)
    IN  /\ \A i, j \in DOMAIN found :
             i < j => Phase(found[i].kind) <= Phase(found[j].kind)
        /\ SelectSeq(found, LAMBDA l : Phase(l.kind) = 1)
             = LinesInInputOrder(Processed, 1)

\* a-crd declared twice with generateIssue true and labels [x, y, y, x],
\* against an index that holds b only
C9_Witness ==
    /\ pc = "done"
    /\ Len(out) = 9
    /\ out[4] = Line("InvalidCrdIssueFlag", NameACrd, NoLabel)
    /\ out[5] = Line("DuplicateLabel", NameACrd, "y")
    /\ out[6] = Line("DuplicateLabel", NameACrd, "x")
    /\ out[7] = Line("DuplicateChartOwnership", NameACrd, NoLabel)
    /\ out[8] = Line("MissingFromMaintainers", NameB, NoLabel)
    /\ out[9] = Line("MissingFromIndex", NameACrd, NoLabel)

(* C10: at every point of the pass maintainersCharts holds the names of    *)
(* the declarations gone through and duplicateCharts those among them that *)
(* two or more declarations bear, so that duplicateCharts is a subset of   *)
(* maintainersCharts and has as many names as there are                    *)
(* DuplicateChartOwnership lines; both are empty at the entry, and no step *)
(* takes a name out of either.                                             *)
C10_State ==
    /\ maintainersCharts = NamesIn(Processed)
    /\ duplicateCharts
         = {n \in NamesIn(Processed) : Occurrences(NamesOf(Processed), n) >= 2}
    /\ duplicateCharts \subseteq maintainersCharts
    /\ CountKind(out, "DuplicateChartOwnership") = Cardinality(duplicateCharts)
    /\ pc = "start" => maintainersCharts = {} /\ duplicateCharts = {}

C10_Accumulation ==
    /\ []C10_State
    /\ [][/\ maintainersCharts \subseteq maintainersCharts'
          /\ duplicateCharts \subseteq duplicateCharts']_vars

\* after three of four declarations: a twice in the first record, b in the second
C10_Witness ==
    /\ pc = "charts"
    /\ Len(Processed) = 3
    /\ Len(Declarations) = 4
    /\ mi = 2
    /\ maintainersCharts = {NameA, NameB}
    /\ duplicateCharts = {NameA}
    /\ CountKind(out, "DuplicateChartOwnership") = 1

====
